---- MODULE Spec2Model ----
(***************************************************************************)
(* Model of src/main.py: a Telegram bot built on python-telegram-bot.      *)
(* Every handler is an asyncio coroutine: the code between two awaits runs *)
(* atomically, and a handler can be suspended only at an await.  A task's  *)
(* pc is the source line of the await it is suspended at.  Strings the     *)
(* code computes with (file names, message texts, environment values) are  *)
(* sequences of one-character strings.                                     *)
(***************************************************************************)
EXTENDS Integers, Sequences, FiniteSets, TLC

VARIABLES
    environ,        \* os.environ: the values of OWNER_ID and AUTO_FORWARD
    OWNER_ID,       \* main.py:28-29, None or an integer
    AUTO_FORWARD,   \* main.py:31, rebound by toggleforward
    BOT_STATS,      \* main.py:36
    KEYWORDS,       \* main.py:60-68, ordered pattern -> replies table
    disk,           \* PHOTOS_DIR and FILES_DIR: name -> content
    tasks,          \* the updates delivered so far and their handler coroutines
    app             \* the Application: polling loop alive, errors logged

vars == <<environ, OWNER_ID, AUTO_FORWARD, BOT_STATS, KEYWORDS, disk, tasks, app>>

----------------------------------------------------------------------------
(* Bounds of the model *)

MaxEvents == 2

\* longest name tail given to sanitize_filename on its own
MaxNameLen == 3

Slots == 1..MaxEvents

----------------------------------------------------------------------------
(* Strings *)

UPPER == <<"A","B","C","D","E","F","G","H","I","J","K","L","M",
           "N","O","P","Q","R","S","T","U","V","W","X","Y","Z">>
LOWER == <<"a","b","c","d","e","f","g","h","i","j","k","l","m",
           "n","o","p","q","r","s","t","u","v","w","x","y","z">>
DIGITS == <<"0","1","2","3","4","5","6","7","8","9">>

Range(s) == {s[k] : k \in DOMAIN s}

\* str.lower() on one character
LowerChar(c) ==
    IF c \in Range(UPPER)
    THEN LOWER[CHOOSE k \in DOMAIN UPPER : UPPER[k] = c]
    ELSE c

\* str.lower()
Lower(s) == [k \in DOMAIN s |-> LowerChar(s[k])]

\* str.isdigit() (ASCII digits)
IsDigit(s) == s # <<>> /\ \A k \in DOMAIN s : s[k] \in Range(DIGITS)

DigitValue(c) == (CHOOSE k \in DOMAIN DIGITS : DIGITS[k] = c) - 1

\* int(s) for a string of digits
RECURSIVE ParseInt(_)
ParseInt(s) ==
    IF s = <<>> THEN 0
    ELSE 10 * ParseInt(SubSeq(s, 1, Len(s) - 1)) + DigitValue(s[Len(s)])

\* str(n) for n >= 0
RECURSIVE IntToStr(_)
IntToStr(n) ==
    IF n < 10 THEN <<DIGITS[n + 1]>>
    ELSE IntToStr(n \div 10) \o <<DIGITS[(n % 10) + 1]>>

\* s[:n]
Prefix(s, n) == SubSeq(s, 1, IF Len(s) < n THEN Len(s) ELSE n)

\* re.search(pattern, text) for a pattern without metacharacters
Search(pattern, text) ==
    \E k \in 0..(Len(text) - Len(pattern)) :
        SubSeq(text, k + 1, k + Len(pattern)) = pattern

----------------------------------------------------------------------------
(* Configuration read at import time *)

None == -1

Unset == <<"\\0">>     \* the variable is absent from the environment

\* os.getenv(name, default)
GetEnv(name, default) == IF environ[name] = Unset THEN default ELSE environ[name]

\* a Python str is truthy iff it is non-empty; None is falsy
StrTruthy(s) == s # Unset /\ s # <<>>

\* main.py:28-29
ParseOwnerId(raw) == IF StrTruthy(raw) /\ IsDigit(raw) THEN ParseInt(raw) ELSE None

\* main.py:31
ParseAutoForward(raw) ==
    Lower(raw) \in {<<"1">>, <<"t","r","u","e">>, <<"y","e","s">>}

MAX_FILE_SIZE == 20 * 1024 * 1024

TruncateLen == 200

----------------------------------------------------------------------------
(* Utilities, main.py:73-89 *)

PathSeparators == {"\\", "/"}

AllowedChars ==
    Range(UPPER) \cup Range(LOWER) \cup Range(DIGITS) \cup {"_", ".", "-", "(", ")", " "}

\* sanitize_filename with its two substitutions in the other order: the path
\* separators are stripped before they can be replaced
sanitize_filename_strip_first(name) ==
    LET stripped == SelectSeq(name, LAMBDA c : c \in AllowedChars)
        replaced == [k \in DOMAIN stripped |->
                        IF stripped[k] \in PathSeparators THEN "_" ELSE stripped[k]]
    IN  Prefix(replaced, TruncateLen)

\* main.py:73-77
sanitize_filename(name) ==
    LET replaced == [k \in DOMAIN name |->
                        IF name[k] \in PathSeparators THEN "_" ELSE name[k]]
        stripped == SelectSeq(replaced, LAMBDA c : c \in AllowedChars)
    IN  Prefix(stripped, TruncateLen)

\* truth value of OWNER_ID in `if OWNER_ID and AUTO_FORWARD` (main.py:167, 191):
\* None and 0 are falsy
OwnerTruthy(owner) == owner # None /\ owner # 0

\* is_admin written with the truth value of OWNER_ID instead of `is not None`
is_admin_truthy(user_id) == OwnerTruthy(OWNER_ID) /\ user_id = OWNER_ID

\* main.py:79-80
is_admin(user_id) == OWNER_ID # None /\ user_id = OWNER_ID

\* main.py:167 and main.py:191
ShouldForward == OwnerTruthy(OWNER_ID) /\ AUTO_FORWARD

----------------------------------------------------------------------------
(* Updates delivered by the gateway *)

Users == {0, 1}

Slash == "/"

CommandText(name) == <<Slash>> \o name

s_start == <<"s","t","a","r","t">>
s_help == <<"h","e","l","p">>
s_menu == <<"m","e","n","u">>
s_getmyid == <<"g","e","t","m","y","i","d">>
s_toggleforward == <<"t","o","g","g","l","e","f","o","r","w","a","r","d">>
s_getstats == <<"g","e","t","s","t","a","t","s">>
s_foo == <<"f","o","o">>

NoUpdate ==
    [type |-> "none", user |-> 0, text |-> <<>>, attachment |-> "none",
     file_id |-> <<>>, file_name |-> <<>>, file_size |-> 0, data |-> ""]

TextUpdate(u, t) == [NoUpdate EXCEPT !.type = "message", !.user = u, !.text = t]

PhotoUpdate(u, fid) ==
    [NoUpdate EXCEPT !.type = "message", !.user = u, !.attachment = "photo",
                     !.file_id = fid]

DocumentUpdate(u, fid, name, size) ==
    [NoUpdate EXCEPT !.type = "message", !.user = u, !.attachment = "document",
                     !.file_id = fid, !.file_name = name, !.file_size = size]

StickerUpdate(u) ==
    [NoUpdate EXCEPT !.type = "message", !.user = u, !.attachment = "sticker"]

CallbackUpdate(u, d) ==
    [NoUpdate EXCEPT !.type = "callback_query", !.user = u, !.data = d]

\* sender-independent commands are sent by user 0 only
PublicCommands == {s_start, s_help, s_menu, s_foo}
UserCommands == {s_getmyid, s_toggleforward, s_getstats}

FileIds == {<<"A">>}
DocNames == {<<"r","/","p">>, <<"r","_","p","*">>}
DocSizes == {MAX_FILE_SIZE, MAX_FILE_SIZE + 1}
Texts == {<<"H","i">>, <<"O","H">>, <<"y","o">>}
CallbackData == {"about", "contact", "other"}

Updates ==
    {TextUpdate(0, CommandText(c)) : c \in PublicCommands}
    \cup {TextUpdate(u, CommandText(c)) : u \in Users, c \in UserCommands}
    \cup {TextUpdate(0, t) : t \in Texts}
    \cup {PhotoUpdate(u, f) : u \in Users, f \in FileIds}
    \cup {DocumentUpdate(u, f, n, z) : u \in Users, f \in FileIds, n \in DocNames, z \in DocSizes}
    \cup {CallbackUpdate(0, d) : d \in CallbackData}
    \cup {StickerUpdate(0)}

----------------------------------------------------------------------------
(* Handler registry and dispatch, main.py:227-250 *)

\* filters.COMMAND: the text starts with a bot command
IsCommand(upd) == upd.text # <<>> /\ upd.text[1] = Slash

Command(name, callback) == [kind |-> "command", arg |-> name, callback |-> callback]
Callback(callback) == [kind |-> "callback", arg |-> <<>>, callback |-> callback]
Message(filter, callback) == [kind |-> filter, arg |-> <<>>, callback |-> callback]

\* the registry with filters.TEXT in place of filters.TEXT & ~filters.COMMAND
HandlersTextOnly ==
    << Command(s_start, "start"),
       Command(s_help, "help_command"),
       Command(s_menu, "menu"),
       Command(s_getmyid, "getmyid"),
       Command(s_toggleforward, "toggleforward"),
       Command(s_getstats, "getstats"),
       Callback("handle_buttons"),
       Message("PHOTO", "handle_photo"),
       Message("Document.ALL", "handle_document"),
       Message("TEXT", "keyword_reply") >>

\* main.py:231-244, in registration order
Handlers ==
    << Command(s_start, "start"),
       Command(s_help, "help_command"),
       Command(s_menu, "menu"),
       Command(s_getmyid, "getmyid"),
       Command(s_toggleforward, "toggleforward"),
       Command(s_getstats, "getstats"),
       Callback("handle_buttons"),
       Message("PHOTO", "handle_photo"),
       Message("Document.ALL", "handle_document"),
       Message("TEXT & ~COMMAND", "keyword_reply") >>

\* Handler.check_update
CheckUpdate(h, upd) ==
    CASE h.kind = "command" ->
            upd.type = "message" /\ IsCommand(upd) /\ Lower(Tail(upd.text)) = h.arg
      [] h.kind = "callback" -> upd.type = "callback_query"
      [] h.kind = "PHOTO" -> upd.type = "message" /\ upd.attachment = "photo"
      [] h.kind = "Document.ALL" -> upd.type = "message" /\ upd.attachment = "document"
      [] h.kind = "TEXT & ~COMMAND" ->
            upd.type = "message" /\ upd.text # <<>> /\ ~IsCommand(upd)
      [] h.kind = "TEXT" -> upd.type = "message" /\ upd.text # <<>>
      [] OTHER -> FALSE

\* Application.process_update: all handlers are in group 0, so the first handler
\* that accepts the update runs and the group is left.  The result is the
\* sequence of callbacks invoked for the update.
Dispatch(upd) ==
    LET matching == SelectSeq(Handlers, LAMBDA h : CheckUpdate(h, upd))
    IN  IF matching = <<>> THEN <<>> ELSE <<Head(matching).callback>>

\* the callbacks invoked for each update of the model
Routing == [upd \in Updates |-> Dispatch(upd)]

----------------------------------------------------------------------------
(* Keyword table, main.py:60-68 and 203-209 *)

Entry(pattern, replies) == [pattern |-> pattern, replies |-> replies]

\* keywords.json: whether the file exists, and the pairs of its JSON object in
\* the order they are written
KeywordFiles ==
    { [exists |-> FALSE, pairs |-> <<>>],
      [exists |-> TRUE,
       pairs |-> << Entry(<<"h","i">>, <<"hi!", "hey">>), Entry(<<"h">>, <<"other">>),
                    Entry(<<"y">>, <<>>) >>],
      [exists |-> TRUE,
       pairs |-> << Entry(<<"h">>, <<"other">>), Entry(<<"h","i">>, <<"hi!", "hey">>),
                    Entry(<<"y">>, <<>>) >>] }

\* main.py:60-68: json.load keeps the order of the pairs
LoadKeywords(file) == IF file.exists THEN file.pairs ELSE <<>>

\* a loop without the return of main.py:209: the last matching entry decides
LastMatch(table, text) ==
    LET hits == {k \in DOMAIN table : Search(table[k].pattern, text)}
    IN  IF hits = {} THEN 0 ELSE CHOOSE k \in hits : \A j \in hits : k >= j

\* the entry the loop of main.py:205-206 stops at: the first one whose pattern
\* is found in the text, 0 when the loop runs to its end
FirstMatch(table, text) ==
    LET hits == {k \in DOMAIN table : Search(table[k].pattern, text)}
    IN  IF hits = {} THEN 0 ELSE CHOOSE k \in hits : \A j \in hits : k <= j

----------------------------------------------------------------------------
(* Tasks: one per delivered update *)

Reply(text, name, nums) == [text |-> text, name |-> name, nums |-> nums]

IdleTask ==
    [upd |-> NoUpdate, invoked |-> <<>>, status |-> "idle", pc |-> 0,
     filename |-> <<>>, replies |-> <<>>, sends |-> <<>>]

\* the handler coroutine is suspended at the await of line pc
Suspended(t, line) == [t EXCEPT !.status = "running", !.pc = line]

\* update.message.reply_text(...) awaited at line
Replying(t, line, reply) ==
    [t EXCEPT !.status = "running", !.pc = line, !.replies = Append(@, reply)]

\* context.bot.send_photo / send_document to the owner, awaited at line
Sending(t, line, what) ==
    [t EXCEPT !.status = "running", !.pc = line,
              !.sends = Append(@, [chat_id |-> OWNER_ID, what |-> what,
                                   file_id |-> t.upd.file_id, from |-> t.upd.user])]

Returned(t) == [t EXCEPT !.status = "done"]

\* the update is taken from the queue and handed to the handlers of group 0
Accepts(i, upd, callback) ==
    /\ app.running
    /\ tasks[i].status = "idle"
    /\ \A j \in Slots : j < i => tasks[j].status # "idle"
    /\ Routing[upd] = <<callback>>

Fresh(upd) == [IdleTask EXCEPT !.upd = upd, !.invoked = Routing[upd]]

At(i, callback, line) ==
    /\ app.running
    /\ tasks[i].status = "running"
    /\ tasks[i].invoked = <<callback>>
    /\ tasks[i].pc = line

\* an error handler that stops the application after logging
error_handler_stops(a, i) == [a EXCEPT !.errors = @ \cup {i}, !.running = FALSE]

\* main.py:214-215: the error handler logs the exception and returns
error_handler(a, i) == [a EXCEPT !.errors = @ \cup {i}]

\* an increment that writes back a value read at startup: a lost update
IncrementStale(stats, key) == [stats EXCEPT ![key] = 1]

\* an increment that counts the upload in every category
IncrementAll(stats, key) == [k \in DOMAIN stats |-> stats[k] + 1]

\* BOT_STATS[key] += 1, main.py:164 and main.py:188
Increment(stats, key) == [stats EXCEPT ![key] = @ + 1]

\* a download that keeps the file already standing at the path
WriteFileKeep(d, dir, name, payload, complete) ==
    IF \E f \in d[dir] : f.name = name
    THEN d
    ELSE [d EXCEPT ![dir] = @ \cup {[name |-> name, payload |-> payload,
                                     complete |-> complete]}]

\* file.download_to_drive(path): the file at path is created or replaced.
\* payload is the task whose download produced the bytes; complete is FALSE
\* when the write stopped part-way.
WriteFile(d, dir, name, payload, complete) ==
    [d EXCEPT ![dir] = {f \in @ : f.name # name}
                         \cup {[name |-> name, payload |-> payload, complete |-> complete]}]

----------------------------------------------------------------------------
(* Initial state: the module has been imported and polling has started *)

OwnerEnv == {Unset, <<"0">>, <<"1">>, <<"x">>}
AutoForwardEnv == {Unset, <<"0">>}

Init ==
    /\ environ \in [OWNER_ID : OwnerEnv, AUTO_FORWARD : AutoForwardEnv,
                    keywords_json : KeywordFiles]
    /\ OWNER_ID = ParseOwnerId(environ.OWNER_ID)
    /\ AUTO_FORWARD = ParseAutoForward(GetEnv("AUTO_FORWARD", <<"1">>))
    /\ BOT_STATS = [photos |-> 0, documents |-> 0]
    /\ KEYWORDS = LoadKeywords(environ.keywords_json)
    /\ disk = [photos |-> {}, files |-> {}]
    /\ tasks = [i \in Slots |-> IdleTask]
    /\ app = [running |-> TRUE, errors |-> {}]

----------------------------------------------------------------------------
(* Basic commands, main.py:94-113 *)

start(i) ==
    \E upd \in Updates :
        /\ Accepts(i, upd, "start")
        /\ tasks' = [tasks EXCEPT ![i] = Replying(Fresh(upd), 95, Reply("Bot is running", <<>>, <<>>))]
        /\ UNCHANGED <<environ, OWNER_ID, AUTO_FORWARD, BOT_STATS, KEYWORDS, disk, app>>

help_command(i) ==
    \E upd \in Updates :
        /\ Accepts(i, upd, "help_command")
        /\ tasks' = [tasks EXCEPT ![i] = Replying(Fresh(upd), 100, Reply("Help", <<>>, <<>>))]
        /\ UNCHANGED <<environ, OWNER_ID, AUTO_FORWARD, BOT_STATS, KEYWORDS, disk, app>>

getmyid(i) ==
    \E upd \in Updates :
        /\ Accepts(i, upd, "getmyid")
        /\ tasks' = [tasks EXCEPT ![i] =
                        Replying(Fresh(upd), 111, Reply("Your ID", <<>>, <<upd.user>>))]
        /\ UNCHANGED <<environ, OWNER_ID, AUTO_FORWARD, BOT_STATS, KEYWORDS, disk, app>>

menu(i) ==
    \E upd \in Updates :
        /\ Accepts(i, upd, "menu")
        /\ tasks' = [tasks EXCEPT ![i] = Replying(Fresh(upd), 140, Reply("Menu", <<>>, <<>>))]
        /\ UNCHANGED <<environ, OWNER_ID, AUTO_FORWARD, BOT_STATS, KEYWORDS, disk, app>>

----------------------------------------------------------------------------
(* Admin commands, main.py:82-89 and 118-130 *)

\* a wrapper that calls the wrapped handler whoever the sender is
admin_only_open(upd) == TRUE

\* main.py:85: the test of the wrapper the decorator returns; TRUE when the
\* wrapper goes on to call the wrapped handler
admin_only(upd) == is_admin(upd.user)

\* main.py:86-87: the wrapper replies and returns
admin_rejected(i, upd) ==
    /\ tasks' = [tasks EXCEPT ![i] =
                    Replying(Fresh(upd), 86, Reply("Admin only command", <<>>, <<>>))]
    /\ UNCHANGED <<AUTO_FORWARD, BOT_STATS>>

\* a toggle that switches forwarding on instead of negating it
ToggledOn(value) == TRUE

\* main.py:121
Toggled(value) == ~value

\* main.py:118-124
toggleforward(i) ==
    \E upd \in Updates :
        /\ Accepts(i, upd, "toggleforward")
        /\ IF ~admin_only(upd)
           THEN admin_rejected(i, upd)
           ELSE /\ AUTO_FORWARD' = Toggled(AUTO_FORWARD)
                /\ tasks' = [tasks EXCEPT ![i] =
                                Replying(Fresh(upd), 122,
                                         Reply(IF AUTO_FORWARD' THEN "Auto-forward ON"
                                                                ELSE "Auto-forward OFF",
                                               <<>>, <<>>))]
                /\ UNCHANGED BOT_STATS
        /\ UNCHANGED <<environ, OWNER_ID, KEYWORDS, disk, app>>

\* a statistics reply that reports the photo counter on both lines
getstats_photos_twice(i) ==
    \E upd \in Updates :
        /\ Accepts(i, upd, "getstats")
        /\ IF ~admin_only(upd)
           THEN admin_rejected(i, upd)
           ELSE /\ tasks' = [tasks EXCEPT ![i] =
                                Replying(Fresh(upd), 128,
                                         Reply("Stats", <<>>,
                                               <<BOT_STATS.photos, BOT_STATS.photos>>))]
                /\ UNCHANGED <<AUTO_FORWARD, BOT_STATS>>
        /\ UNCHANGED <<environ, OWNER_ID, KEYWORDS, disk, app>>

\* main.py:126-130
getstats(i) ==
    \E upd \in Updates :
        /\ Accepts(i, upd, "getstats")
        /\ IF ~admin_only(upd)
           THEN admin_rejected(i, upd)
           ELSE /\ tasks' = [tasks EXCEPT ![i] =
                                Replying(Fresh(upd), 128,
                                         Reply("Stats", <<>>,
                                               <<BOT_STATS.photos, BOT_STATS.documents>>))]
                /\ UNCHANGED <<AUTO_FORWARD, BOT_STATS>>
        /\ UNCHANGED <<environ, OWNER_ID, KEYWORDS, disk, app>>

----------------------------------------------------------------------------
(* Button callbacks, main.py:145-151 *)

handle_buttons(i) ==
    \E upd \in Updates :
        /\ Accepts(i, upd, "handle_buttons")
        /\ tasks' = [tasks EXCEPT ![i] = Suspended(Fresh(upd), 147)]
        /\ UNCHANGED <<environ, OWNER_ID, AUTO_FORWARD, BOT_STATS, KEYWORDS, disk, app>>

\* query.answer() returned
buttons_answered(i) ==
    /\ At(i, "handle_buttons", 147)
    /\ tasks' = [tasks EXCEPT ![i] =
                    CASE @.upd.data = "about" -> Replying(@, 149, Reply("edit: About", <<>>, <<>>))
                      [] @.upd.data = "contact" -> Replying(@, 151, Reply("edit: Contact", <<>>, <<>>))
                      [] OTHER -> Returned(@)]
    /\ UNCHANGED <<environ, OWNER_ID, AUTO_FORWARD, BOT_STATS, KEYWORDS, disk, app>>

----------------------------------------------------------------------------
(* File handlers, main.py:156-198 *)

s_photo_ == <<"p","h","o","t","o","_">>
s_jpg == <<".","j","p","g">>

\* f"photo_{user.id}_{file.file_id}.jpg", main.py:161
PhotoName(upd) == s_photo_ \o IntToStr(upd.user) \o <<"_">> \o upd.file_id \o s_jpg

\* f"{user.id}_{doc.file_name}", main.py:185
DocumentName(upd) == IntToStr(upd.user) \o <<"_">> \o upd.file_name

\* main.py:157-159
handle_photo(i) ==
    \E upd \in Updates :
        /\ Accepts(i, upd, "handle_photo")
        /\ tasks' = [tasks EXCEPT ![i] = Suspended(Fresh(upd), 159)]
        /\ UNCHANGED <<environ, OWNER_ID, AUTO_FORWARD, BOT_STATS, KEYWORDS, disk, app>>

\* main.py:159-162: get_file() returned
photo_got_file(i) ==
    /\ At(i, "handle_photo", 159)
    /\ tasks' = [tasks EXCEPT ![i] =
                    Suspended([tasks[i] EXCEPT !.filename = sanitize_filename(PhotoName(tasks[i].upd))], 162)]
    /\ UNCHANGED <<environ, OWNER_ID, AUTO_FORWARD, BOT_STATS, KEYWORDS, disk, app>>

\* a handler that sends the "saved" reply before the copy to the owner
photo_downloaded_reply_first(i) ==
    /\ At(i, "handle_photo", 162)
    /\ disk' = WriteFile(disk, "photos", tasks[i].filename, i, TRUE)
    /\ BOT_STATS' = Increment(BOT_STATS, "photos")
    /\ tasks' = [tasks EXCEPT ![i] =
                    IF ShouldForward
                    THEN Sending(Replying(@, 174, Reply("Photo saved", @.filename, <<>>)),
                                 168, "photo")
                    ELSE Replying(@, 174, Reply("Photo saved", @.filename, <<>>))]
    /\ UNCHANGED <<environ, OWNER_ID, AUTO_FORWARD, KEYWORDS, app>>

\* main.py:162-174: download_to_drive() returned
photo_downloaded(i) ==
    /\ At(i, "handle_photo", 162)
    /\ disk' = WriteFile(disk, "photos", tasks[i].filename, i, TRUE)
    /\ BOT_STATS' = Increment(BOT_STATS, "photos")
    /\ tasks' = [tasks EXCEPT ![i] =
                    IF ShouldForward
                    THEN Sending(@, 168, "photo")
                    ELSE Replying(@, 174, Reply("Photo saved", @.filename, <<>>))]
    /\ UNCHANGED <<environ, OWNER_ID, AUTO_FORWARD, KEYWORDS, app>>

\* main.py:168-174: send_photo() returned
photo_sent(i) ==
    /\ At(i, "handle_photo", 168)
    /\ tasks' = [tasks EXCEPT ![i] = Replying(@, 174, Reply("Photo saved", @.filename, <<>>))]
    /\ UNCHANGED <<environ, OWNER_ID, AUTO_FORWARD, BOT_STATS, KEYWORDS, disk, app>>

\* the size test written with >= instead of >
TooLargeAtLimit(file_size) == file_size >= MAX_FILE_SIZE

\* main.py:180
TooLarge(file_size) == file_size > MAX_FILE_SIZE

\* main.py:177-184
handle_document(i) ==
    \E upd \in Updates :
        /\ Accepts(i, upd, "handle_document")
        /\ tasks' = [tasks EXCEPT ![i] =
                        IF TooLarge(upd.file_size)
                        THEN Replying(Fresh(upd), 181, Reply("File too large", <<>>, <<>>))
                        ELSE Suspended(Fresh(upd), 184)]
        /\ UNCHANGED <<environ, OWNER_ID, AUTO_FORWARD, BOT_STATS, KEYWORDS, disk, app>>

\* main.py:184-186: get_file() returned
document_got_file(i) ==
    /\ At(i, "handle_document", 184)
    /\ tasks' = [tasks EXCEPT ![i] =
                    Suspended([tasks[i] EXCEPT !.filename = sanitize_filename(DocumentName(tasks[i].upd))], 186)]
    /\ UNCHANGED <<environ, OWNER_ID, AUTO_FORWARD, BOT_STATS, KEYWORDS, disk, app>>

\* main.py:186-198: download_to_drive() returned
document_downloaded(i) ==
    /\ At(i, "handle_document", 186)
    /\ disk' = WriteFile(disk, "files", tasks[i].filename, i, TRUE)
    /\ BOT_STATS' = Increment(BOT_STATS, "documents")
    /\ tasks' = [tasks EXCEPT ![i] =
                    IF ShouldForward
                    THEN Sending(@, 192, "document")
                    ELSE Replying(@, 198, Reply("Document saved", @.filename, <<>>))]
    /\ UNCHANGED <<environ, OWNER_ID, AUTO_FORWARD, KEYWORDS, app>>

\* main.py:192-198: send_document() returned
document_sent(i) ==
    /\ At(i, "handle_document", 192)
    /\ tasks' = [tasks EXCEPT ![i] = Replying(@, 198, Reply("Document saved", @.filename, <<>>))]
    /\ UNCHANGED <<environ, OWNER_ID, AUTO_FORWARD, BOT_STATS, KEYWORDS, disk, app>>

----------------------------------------------------------------------------
(* Keyword replies, main.py:203-209 *)

keyword_reply(i) ==
    \E upd \in Updates :
        /\ Accepts(i, upd, "keyword_reply")
        /\ LET text == Lower(upd.text)
               k == FirstMatch(KEYWORDS, text)
           IN  IF k = 0
               THEN \* the loop ends without a match and the handler returns
                    /\ tasks' = [tasks EXCEPT ![i] = Returned(Fresh(upd))]
                    /\ app' = app
               ELSE IF KEYWORDS[k].replies = <<>>
               THEN \* random.choice raises IndexError on an empty list
                    /\ tasks' = [tasks EXCEPT ![i] = [Fresh(upd) EXCEPT !.status = "failed", !.pc = 207]]
                    /\ app' = error_handler(app, i)
               ELSE /\ \E r \in Range(KEYWORDS[k].replies) :
                          tasks' = [tasks EXCEPT ![i] = Replying(Fresh(upd), 207, Reply(r, <<>>, <<>>))]
                    /\ app' = app
        /\ UNCHANGED <<environ, OWNER_ID, AUTO_FORWARD, BOT_STATS, KEYWORDS, disk>>

----------------------------------------------------------------------------
(* Dispatch boundary, main.py:246-250 *)

\* the awaits a handler returns after
LastAwaits == {86, 95, 100, 111, 122, 128, 140, 149, 151, 174, 181, 198, 207}

DownloadAwaits == {162, 186}

\* no handler of group 0 accepts the update: it is dropped
unhandled(i) ==
    \E upd \in Updates :
        /\ app.running
        /\ tasks[i].status = "idle"
        /\ \A j \in Slots : j < i => tasks[j].status # "idle"
        /\ Routing[upd] = <<>>
        /\ tasks' = [tasks EXCEPT ![i] = [Fresh(upd) EXCEPT !.status = "dropped"]]
        /\ UNCHANGED <<environ, OWNER_ID, AUTO_FORWARD, BOT_STATS, KEYWORDS, disk, app>>

\* the last await of a handler returned, and so does the handler
handler_returned(i) ==
    /\ app.running
    /\ tasks[i].status = "running"
    /\ tasks[i].pc \in LastAwaits
    /\ tasks' = [tasks EXCEPT ![i] = Returned(@)]
    /\ UNCHANGED <<environ, OWNER_ID, AUTO_FORWARD, BOT_STATS, KEYWORDS, disk, app>>

\* a handler that undoes the count and removes the stored file when the send
\* to the owner raises
handler_raised_rollback(i) ==
    /\ app.running
    /\ tasks[i].status = "running"
    /\ tasks[i].pc \notin DownloadAwaits
    /\ tasks' = [tasks EXCEPT ![i].status = "failed"]
    /\ app' = error_handler(app, i)
    /\ IF tasks[i].pc \in {168, 192}
       THEN LET key == IF tasks[i].pc = 168 THEN "photos" ELSE "documents"
                dir == IF tasks[i].pc = 168 THEN "photos" ELSE "files"
            IN  /\ BOT_STATS' = [BOT_STATS EXCEPT ![key] = @ - 1]
                /\ disk' = [disk EXCEPT ![dir] = {f \in @ : f.name # tasks[i].filename}]
       ELSE UNCHANGED <<BOT_STATS, disk>>
    /\ UNCHANGED <<environ, OWNER_ID, AUTO_FORWARD, KEYWORDS>>

\* the call a handler awaits (get_file, a send, a reply, an edit) raised: the
\* exception leaves the handler, process_update catches it and runs the
\* registered error handler
handler_raised(i) ==
    /\ app.running
    /\ tasks[i].status = "running"
    /\ tasks[i].pc \notin DownloadAwaits
    /\ tasks' = [tasks EXCEPT ![i].status = "failed"]
    /\ app' = error_handler(app, i)
    /\ UNCHANGED <<environ, OWNER_ID, AUTO_FORWARD, BOT_STATS, KEYWORDS, disk>>

\* a handler that counts the upload although its download raised
download_raised_counted(i) ==
    /\ app.running
    /\ tasks[i].status = "running"
    /\ tasks[i].pc \in DownloadAwaits
    /\ BOT_STATS' = Increment(BOT_STATS, IF tasks[i].pc = 162 THEN "photos" ELSE "documents")
    /\ tasks' = [tasks EXCEPT ![i].status = "failed"]
    /\ app' = error_handler(app, i)
    /\ UNCHANGED <<environ, OWNER_ID, AUTO_FORWARD, KEYWORDS, disk>>

\* download_to_drive() raised: before anything was written, or after the file
\* at the final path was opened for writing and part of it written
download_raised(i) ==
    /\ app.running
    /\ tasks[i].status = "running"
    /\ tasks[i].pc \in DownloadAwaits
    /\ \E opened \in BOOLEAN :
          disk' = IF opened
                  THEN WriteFile(disk, IF tasks[i].pc = 162 THEN "photos" ELSE "files",
                                 tasks[i].filename, i, FALSE)
                  ELSE disk
    /\ tasks' = [tasks EXCEPT ![i].status = "failed"]
    /\ app' = error_handler(app, i)
    /\ UNCHANGED <<environ, OWNER_ID, AUTO_FORWARD, BOT_STATS, KEYWORDS>>

----------------------------------------------------------------------------

Next ==
    \E i \in Slots :
        \/ start(i)
        \/ help_command(i)
        \/ getmyid(i)
        \/ menu(i)
        \/ toggleforward(i)
        \/ getstats(i)
        \/ handle_buttons(i)
        \/ buttons_answered(i)
        \/ handle_photo(i)
        \/ photo_got_file(i)
        \/ photo_downloaded(i)
        \/ photo_sent(i)
        \/ handle_document(i)
        \/ document_got_file(i)
        \/ document_downloaded(i)
        \/ document_sent(i)
        \/ keyword_reply(i)
        \/ unhandled(i)
        \/ handler_returned(i)
        \/ handler_raised(i)
        \/ download_raised(i)

Spec == Init /\ [][Next]_vars

----------------------------------------------------------------------------
(* sanitize_filename on its own, main.py:73-77 *)

SanAlphabet == {"a", "/", "\\", "*", " "}

\* the names of at most n characters over SanAlphabet
RECURSIVE Words(_)
Words(n) ==
    IF n = 0 THEN {<<>>}
    ELSE Words(n - 1) \cup {Append(w, c) : w \in Words(n - 1), c \in SanAlphabet}

Pad(n) == [k \in 1..n |-> "a"]

\* short names, and names whose length is around the truncation length
SanNames ==
    {Pad(n) \o w : n \in {0, TruncateLen - 2, TruncateLen - 1, TruncateLen},
                   w \in Words(MaxNameLen)}

\* the name is the argument of the call
SanInit ==
    /\ environ = [OWNER_ID |-> Unset, AUTO_FORWARD |-> Unset,
                  keywords_json |-> [exists |-> FALSE, pairs |-> <<>>]]
    /\ OWNER_ID = ParseOwnerId(environ.OWNER_ID)
    /\ AUTO_FORWARD = ParseAutoForward(GetEnv("AUTO_FORWARD", <<"1">>))
    /\ BOT_STATS = [photos |-> 0, documents |-> 0]
    /\ KEYWORDS = LoadKeywords(environ.keywords_json)
    /\ disk = [photos |-> {}, files |-> {}]
    /\ \E name \in SanNames :
            tasks = [i \in Slots |->
                        IF i = 1 THEN [IdleTask EXCEPT !.upd.file_name = name]
                        ELSE IdleTask]
    /\ app = [running |-> TRUE, errors |-> {}]

\* the call returns the sanitized name
sanitize_applied ==
    /\ tasks[1].status = "idle"
    /\ tasks' = [tasks EXCEPT ![1] =
                    [tasks[1] EXCEPT !.filename = sanitize_filename(tasks[1].upd.file_name),
                                     !.status = "done"]]
    /\ UNCHANGED <<environ, OWNER_ID, AUTO_FORWARD, BOT_STATS, KEYWORDS, disk, app>>

SpecSanitize == SanInit /\ [][sanitize_applied]_vars

----------------------------------------------------------------------------
(* Properties *)

Invoked(t, callback) == t.invoked = <<callback>>

\* task t was handed to a handler in this step
Dispatched(i) == tasks[i].status = "idle" /\ tasks'[i].status # "idle"

\* the download of upload t returned: the handler is at or past the forward step
Stored(t) == t.status # "idle" /\ t.pc \in {168, 174, 192, 198}

StoredPhotos == {i \in Slots : Invoked(tasks[i], "handle_photo") /\ Stored(tasks[i])}
StoredDocuments == {i \in Slots : Invoked(tasks[i], "handle_document") /\ Stored(tasks[i])}

TooLargeReply == Reply("File too large", <<>>, <<>>)
AdminOnlyReply == Reply("Admin only command", <<>>, <<>>)

WrittenBy(i) == {f \in disk.photos \cup disk.files : f.payload = i}

\* the admin identity the environment configures, None when it configures none
ConfiguredAdmin ==
    IF environ.OWNER_ID # Unset /\ IsDigit(environ.OWNER_ID)
    THEN ParseInt(environ.OWNER_ID) ELSE None

IsConfiguredAdmin(u) == ConfiguredAdmin # None /\ u = ConfiguredAdmin

\* the value of the toggle at startup
StartupForward == ParseAutoForward(GetEnv("AUTO_FORWARD", <<"1">>))

\* C1: a document whose declared size exceeds MAX_FILE_SIZE gets only the
\* "file too large" reply; every step of its handling leaves the disk and both
\* counters alone and sends nothing to the admin, and nothing on disk was
\* written by it.  A document of at most MAX_FILE_SIZE never gets that reply.
C1_TooLargeRejected ==
    [][\A i \in Slots :
        LET t == tasks'[i] IN
        (Invoked(t, "handle_document") /\ tasks'[i] # tasks[i]) =>
            IF t.upd.file_size > MAX_FILE_SIZE
            THEN /\ t.replies = <<TooLargeReply>>
                 /\ t.pc = 181
                 /\ t.sends = <<>>
                 /\ BOT_STATS' = BOT_STATS
                 /\ disk' = disk
                 /\ WrittenBy(i) = {}
            ELSE TooLargeReply \notin Range(t.replies)]_vars

C1_Witness ==
    \E i \in Slots :
        /\ Invoked(tasks[i], "handle_document")
        /\ tasks[i].upd.file_size > MAX_FILE_SIZE
        /\ tasks[i].status = "done"
        /\ tasks[i].replies = <<TooLargeReply>>

\* C2: in every interleaving, each counter equals the number of uploads of its
\* category whose download has returned: no increment is lost and none is
\* counted twice.
C2_NoLostIncrement ==
    /\ BOT_STATS.photos = Cardinality(StoredPhotos)
    /\ BOT_STATS.documents = Cardinality(StoredDocuments)

\* two uploads of one category that were in flight together and are both counted
C2_Witness ==
    \E i, j \in Slots :
        /\ i # j
        /\ Invoked(tasks[i], "handle_photo") /\ Invoked(tasks[j], "handle_photo")
        /\ tasks[i].status = "running" /\ tasks[j].status = "running"
        /\ Stored(tasks[i]) /\ Stored(tasks[j])
        /\ BOT_STATS.photos = 2

\* an admin-only command whose sender is not the configured admin
Rejected(t) ==
    /\ Invoked(t, "toggleforward") \/ Invoked(t, "getstats")
    /\ ~IsConfiguredAdmin(t.upd.user)

AcceptedToggles ==
    {i \in Slots : Invoked(tasks[i], "toggleforward") /\ IsConfiguredAdmin(tasks[i].upd.user)}

\* C3: a toggleforward or getstats command from a sender who is not the admin
\* gets the "admin only" reply and nothing else, and its dispatch changes neither
\* the toggle nor the counters; the toggle changes only in the dispatch of a
\* toggleforward sent by the configured admin, so it differs from its startup
\* value only if such a command was handled.
C3_AdminGate ==
    [][/\ \A i \in Slots :
            /\ Rejected(tasks'[i]) => tasks'[i].replies = <<AdminOnlyReply>>
            /\ (Dispatched(i) /\ Rejected(tasks'[i])) =>
                    AUTO_FORWARD' = AUTO_FORWARD /\ BOT_STATS' = BOT_STATS
       /\ AUTO_FORWARD' # AUTO_FORWARD =>
            \E i \in Slots :
                /\ Dispatched(i)
                /\ Invoked(tasks'[i], "toggleforward")
                /\ IsConfiguredAdmin(tasks'[i].upd.user)
       /\ (AUTO_FORWARD # StartupForward)' => (AcceptedToggles # {})']_vars

C3_Witness ==
    \E i, j \in Slots :
        /\ ConfiguredAdmin # None
        /\ Invoked(tasks[i], "toggleforward") /\ Rejected(tasks[i])
        /\ Invoked(tasks[j], "getstats") /\ Rejected(tasks[j])
        /\ tasks[i].status = "done" /\ tasks[j].status = "done"
        /\ AUTO_FORWARD = StartupForward

\* C4: is_admin(id) is false for every id when the environment configures no
\* admin identity, and true for exactly the configured identity otherwise, in
\* every reachable state.
C4_IsAdmin ==
    \A u \in 0..2 :
        is_admin(u) <=> (ConfiguredAdmin # None /\ u = ConfiguredAdmin)

\* the admin identity 0 is configured and a toggle of user 0 was let through
C4_Witness ==
    \E i \in Slots :
        /\ ConfiguredAdmin = 0
        /\ Invoked(tasks[i], "toggleforward")
        /\ tasks[i].upd.user = 0
        /\ tasks[i].pc = 122
        /\ ~is_admin(1)

ForwardReply(value) ==
    Reply(IF value THEN "Auto-forward ON" ELSE "Auto-forward OFF", <<>>, <<>>)

\* C5: the dispatch of an admin toggleforward negates the toggle and replies with
\* the new value in the same step, and after k such commands the toggle is its
\* startup value negated k mod 2 times.
C5_ToggleParity ==
    [][/\ \A i \in Slots :
            (Dispatched(i) /\ Invoked(tasks'[i], "toggleforward")
                /\ IsConfiguredAdmin(tasks'[i].upd.user)) =>
                    /\ AUTO_FORWARD' = ~AUTO_FORWARD
                    /\ tasks'[i].replies = <<ForwardReply(AUTO_FORWARD')>>
       /\ (AUTO_FORWARD = (StartupForward <=> Cardinality(AcceptedToggles) % 2 = 0))']_vars

C5_Witness ==
    /\ Cardinality(AcceptedToggles) = 2
    /\ \A i \in AcceptedToggles : tasks[i].status = "done"
    /\ AUTO_FORWARD = StartupForward

\* the download of upload i returns in this step: its forward step
ForwardStep(i) ==
    /\ tasks[i].status = "running"
    /\ tasks[i].pc \in DownloadAwaits
    /\ Stored(tasks'[i])

\* C6: at the forward step of an upload a copy is sent to the admin if and only
\* if an admin identity is configured and the toggle is on at that moment.
C6_ForwardIffConfiguredAndOn ==
    [][\A i \in Slots :
        ForwardStep(i) =>
            (tasks'[i].sends # <<>> <=> (ConfiguredAdmin # None /\ AUTO_FORWARD))]_vars

\* C7: a text message gets at most one keyword reply, drawn from the replies of
\* the first entry, in table order, whose pattern occurs in the lower-cased
\* text, and the table stays as it was loaded.
C7_FirstMatchWins ==
    /\ KEYWORDS = LoadKeywords(environ.keywords_json)
    /\ \A i \in Slots :
        Invoked(tasks[i], "keyword_reply") =>
            LET t == tasks[i]
                text == Lower(t.upd.text)
            IN  /\ Len(t.replies) <= 1
                /\ t.replies # <<>> =>
                    \E k \in DOMAIN KEYWORDS :
                        /\ Search(KEYWORDS[k].pattern, text)
                        /\ \A j \in 1..(k - 1) : ~Search(KEYWORDS[j].pattern, text)
                        /\ t.replies[1].text \in Range(KEYWORDS[k].replies)

\* "Hi" is answered from the entry `hi`, which stands before the entry `h`
C7_Witness ==
    \E i \in Slots :
        /\ Len(KEYWORDS) >= 2
        /\ KEYWORDS[1].pattern = <<"h","i">> /\ KEYWORDS[2].pattern = <<"h">>
        /\ Invoked(tasks[i], "keyword_reply")
        /\ tasks[i].upd.text = <<"H","i">>
        /\ tasks[i].status = "done"
        /\ tasks[i].replies[1].text \in {"hi!", "hey"}

\* the handler the category of an update calls for; <<>> when there is none
ExpectedHandler(upd) ==
    CASE upd.type = "callback_query" -> <<"handle_buttons">>
      [] upd.type = "message" /\ upd.text # <<>> /\ upd.text[1] = Slash ->
            CASE Tail(upd.text) = s_start -> <<"start">>
              [] Tail(upd.text) = s_help -> <<"help_command">>
              [] Tail(upd.text) = s_menu -> <<"menu">>
              [] Tail(upd.text) = s_getmyid -> <<"getmyid">>
              [] Tail(upd.text) = s_toggleforward -> <<"toggleforward">>
              [] Tail(upd.text) = s_getstats -> <<"getstats">>
              [] OTHER -> <<>>
      [] upd.type = "message" /\ upd.attachment = "photo" -> <<"handle_photo">>
      [] upd.type = "message" /\ upd.attachment = "document" -> <<"handle_document">>
      [] upd.type = "message" /\ upd.text # <<>> -> <<"keyword_reply">>
      [] OTHER -> <<>>

\* C8: every delivered update invokes at most one handler, the one its category
\* calls for; an update of a category without a handler invokes none, is
\* dropped and produces no reply and no message to the admin.
C8_ExactlyOneHandler ==
    \A i \in Slots :
        tasks[i].status # "idle" =>
            /\ Len(tasks[i].invoked) <= 1
            /\ tasks[i].invoked = ExpectedHandler(tasks[i].upd)
            /\ tasks[i].invoked = <<>> =>
                    /\ tasks[i].status = "dropped"
                    /\ tasks[i].replies = <<>>
                    /\ tasks[i].sends = <<>>
            /\ tasks[i].invoked # <<>> => tasks[i].status # "dropped"

\* an unregistered command was dropped and a photo went to handle_photo
C8_Witness ==
    \E i, j \in Slots :
        /\ tasks[i].upd.text = CommandText(s_foo)
        /\ tasks[i].status = "dropped"
        /\ tasks[j].upd.attachment = "photo"
        /\ Invoked(tasks[j], "handle_photo")
        /\ tasks[j].status = "done"

\* what a suspended handler does when the call it awaits returns
Continues(j) ==
    \/ buttons_answered(j)
    \/ photo_got_file(j)
    \/ photo_downloaded(j)
    \/ photo_sent(j)
    \/ document_got_file(j)
    \/ document_downloaded(j)
    \/ document_sent(j)
    \/ handler_returned(j)

NextIdle(j) ==
    tasks[j].status = "idle" /\ \A k \in Slots : k < j => tasks[k].status # "idle"

\* C9: the step in which a handler fails logs the failure and changes nothing
\* else but that task's status (and what its interrupted download left on
\* disk); the polling loop stays alive, every suspended handler can still go
\* on and the next update can still be dispatched.
C9_FailureIsolated ==
    /\ [](/\ app.running
          /\ \A j \in Slots :
                /\ tasks[j].status = "running" => ENABLED Continues(j)
                /\ NextIdle(j) => ENABLED start(j) /\ ENABLED handle_photo(j))
    /\ [][\A i \in Slots :
            (tasks[i].status # "failed" /\ tasks'[i].status = "failed") =>
                /\ i \in app'.errors
                /\ \A j \in Slots \ {i} : tasks'[j] = tasks[j]
                /\ tasks'[i] = [tasks[i] EXCEPT !.status = "failed"]
                   \/ tasks[i].status = "idle"
                /\ UNCHANGED <<AUTO_FORWARD, BOT_STATS, OWNER_ID, KEYWORDS>>]_vars

\* a handler failed, and an update delivered after it was handled to its end
C9_Witness ==
    \E i, j \in Slots :
        /\ i < j
        /\ tasks[i].status = "failed"
        /\ i \in app.errors
        /\ tasks[j].status = "done"
        /\ Stored(tasks[j])

\* C10: when the download of an upload raises, the step leaves both counters as
\* they were, and the failed upload has sent nothing to the admin and is not
\* among the uploads counted.
C10_FailedDownloadNotCounted ==
    [][\A i \in Slots :
        (tasks'[i].status = "failed" /\ tasks'[i].pc \in DownloadAwaits) =>
            /\ tasks'[i].sends = <<>>
            /\ tasks[i].status = "running" => BOT_STATS' = BOT_STATS
            /\ i \notin StoredPhotos' \cup StoredDocuments']_vars

C10_Witness ==
    \E i \in Slots :
        /\ tasks[i].status = "failed"
        /\ tasks[i].pc = 186
        /\ ShouldForward
        /\ tasks[i].sends = <<>>
        /\ BOT_STATS.documents = 0

IsUpload(t) == Invoked(t, "handle_photo") \/ Invoked(t, "handle_document")

DirOf(t) == IF Invoked(t, "handle_photo") THEN disk.photos ELSE disk.files

CountOf(t) == IF Invoked(t, "handle_photo") THEN BOT_STATS.photos ELSE BOT_STATS.documents

SavedReply(t) ==
    Reply(IF Invoked(t, "handle_photo") THEN "Photo saved" ELSE "Document saved",
          t.filename, <<>>)

\* the handler of upload t ended with the exception its download raised
DownloadFailed(t) == IsUpload(t) /\ t.status = "failed" /\ t.pc \in DownloadAwaits

\* the handler of upload t ended with the exception the send to the owner raised
ForwardFailed(t) == IsUpload(t) /\ t.status = "failed" /\ t.pc \in {168, 192}

\* C11: an upload whose download or write failed has got a reply that tells its
\* sender of the failure, once its handling has ended.
C11_FailureReplied ==
    \A i \in Slots : DownloadFailed(tasks[i]) => tasks[i].replies # <<>>

\* C12: after the send to the admin failed, a file is still stored under the
\* upload's name and the upload is still counted: each counter equals the
\* number of uploads of its category whose download returned.
C12_ForwardFailureKeepsStore ==
    /\ \A i \in Slots :
            ForwardFailed(tasks[i]) =>
                /\ \E f \in DirOf(tasks[i]) : f.name = tasks[i].filename
                /\ CountOf(tasks[i]) >= 1
    /\ (\E i \in Slots : ForwardFailed(tasks[i])) =>
            /\ BOT_STATS.photos = Cardinality(StoredPhotos)
            /\ BOT_STATS.documents = Cardinality(StoredDocuments)

C12_Witness ==
    \E i \in Slots :
        /\ ForwardFailed(tasks[i])
        /\ Invoked(tasks[i], "handle_document")
        /\ tasks[i].sends # <<>>
        /\ [name |-> tasks[i].filename, payload |-> i, complete |-> TRUE] \in disk.files
        /\ BOT_STATS.documents = 1

\* the name the sanitization policy asks for, character by character: a path
\* separator becomes an underscore, a character of the allow-set stays, every
\* other character is dropped (the name is split in halves to keep the
\* recursion shallow)
RECURSIVE Cleaned(_)
Cleaned(name) ==
    IF name = <<>> THEN <<>>
    ELSE IF Len(name) = 1
    THEN LET c == name[1]
         IN  IF c = "/" \/ c = "\\" THEN <<"_">>
             ELSE IF c \in Range(UPPER) \cup Range(LOWER) \cup Range(DIGITS)
                           \cup {"_", ".", "-", "(", ")", " "}
                  THEN <<c>>
                  ELSE <<>>
    ELSE LET half == Len(name) \div 2
         IN  Cleaned(SubSeq(name, 1, half)) \o Cleaned(SubSeq(name, half + 1, Len(name)))

\* C13: the sanitized name has no path separator and no character outside the
\* allow-set, is at most 200 characters long, and is the first 200 characters
\* of the input with its separators replaced by underscore and its other
\* disallowed characters removed.
C13_Sanitized ==
    tasks[1].status = "done" =>
        LET name == tasks[1].upd.file_name
            out == tasks[1].filename
            want == Cleaned(name)
        IN  /\ \A k \in DOMAIN out :
                    /\ out[k] \notin {"/", "\\"}
                    /\ out[k] \in Range(UPPER) \cup Range(LOWER) \cup Range(DIGITS)
                                    \cup {"_", ".", "-", "(", ")", " "}
            /\ Len(out) <= 200
            /\ out = SubSeq(want, 1, IF Len(want) < 200 THEN Len(want) ELSE 200)

\* a name with a separator and a disallowed character that had to be truncated
C13_Witness ==
    /\ tasks[1].status = "done"
    /\ Len(tasks[1].upd.file_name) > 200
    /\ \E k \in DOMAIN tasks[1].upd.file_name : tasks[1].upd.file_name[k] = "/"
    /\ \E k \in DOMAIN tasks[1].upd.file_name : tasks[1].upd.file_name[k] = "*"
    /\ Len(tasks[1].filename) = 200
    /\ tasks[1].filename[200] = "_"

\* C14: every file at a final path of the photos or files directory holds a
\* completely downloaded payload.
C14_NoPartialFile ==
    \A f \in disk.photos \cup disk.files : f.complete

\* C15: within one upload the steps come in the order download and write,
\* count, forward, reply: until the download has returned nothing was sent to
\* the admin and no "saved" reply was sent; once it has returned a file stands
\* under the upload's name and the upload is counted; the "saved" reply exists
\* only once the handler is past the forward step.
C15_StepOrder ==
    /\ BOT_STATS.photos <= Cardinality(StoredPhotos)
    /\ BOT_STATS.documents <= Cardinality(StoredDocuments)
    /\ \A i \in Slots :
        LET t == tasks[i] IN
        IsUpload(t) =>
            /\ t.filename = <<>> => WrittenBy(i) = {}
            /\ ~Stored(t) =>
                    /\ t.sends = <<>>
                    /\ SavedReply(t) \notin Range(t.replies)
                    /\ \A f \in WrittenBy(i) : ~f.complete
            /\ Stored(t) =>
                    /\ \E f \in DirOf(t) : f.name = t.filename
                    /\ CountOf(t) >= 1
            /\ SavedReply(t) \in Range(t.replies) => t.pc \in {174, 198}
            /\ t.pc \in {174, 198} => t.replies = <<SavedReply(t)>> /\ Len(t.sends) <= 1

\* an upload went through all its steps, the copy to the admin included
C15_Witness ==
    \E i \in Slots :
        /\ Invoked(tasks[i], "handle_photo")
        /\ tasks[i].status = "done"
        /\ Len(tasks[i].sends) = 1
        /\ tasks[i].replies = <<SavedReply(tasks[i])>>
        /\ BOT_STATS.photos = 1

\* C16: an upload whose send to the admin failed has got the same reply as one
\* whose send succeeded: the "saved" confirmation with the stored name.
C16_ForwardFailureSilent ==
    \A i \in Slots :
        ForwardFailed(tasks[i]) => tasks[i].replies = <<SavedReply(tasks[i])>>

\* C17: the step in which the download of an upload returns puts that upload's
\* payload, complete, under its name as the only file of that name, whatever
\* stood there before, and counts the upload, which goes on to its forward step:
\* uploads of one name are not deduplicated and the last writer's payload stays.
C17_LastWriterWins ==
    [][\A i \in Slots :
        ForwardStep(i) =>
            LET t == tasks'[i]
                photo == Invoked(t, "handle_photo")
                dir == IF photo THEN disk'.photos ELSE disk'.files
                key == IF photo THEN "photos" ELSE "documents"
            IN  /\ [name |-> t.filename, payload |-> i, complete |-> TRUE] \in dir
                /\ \A f \in dir : f.name = t.filename => f.payload = i
                /\ BOT_STATS'[key] = BOT_STATS[key] + 1
                /\ t.status = "running"]_vars

\* two documents with different declared names and one final name were both
\* stored and counted, and one file stands under the name
C17_Witness ==
    \E i, j \in Slots :
        /\ i # j
        /\ Invoked(tasks[i], "handle_document") /\ Invoked(tasks[j], "handle_document")
        /\ tasks[i].upd.file_name # tasks[j].upd.file_name
        /\ tasks[i].filename = tasks[j].filename
        /\ tasks[i].status = "done" /\ tasks[j].status = "done"
        /\ BOT_STATS.documents = 2
        /\ disk.files = {[name |-> tasks[i].filename, payload |-> i, complete |-> TRUE]}

AcceptedStats(t) == Invoked(t, "getstats") /\ IsConfiguredAdmin(t.upd.user)

\* C18: the statistics reply of an admin's getstats carries the two counters as
\* they stand together in the state the command is dispatched in, and is not
\* changed afterwards.
C18_SnapshotNotTorn ==
    [][\A i \in Slots :
        AcceptedStats(tasks'[i]) =>
            IF Dispatched(i)
            THEN tasks'[i].replies =
                    <<Reply("Stats", <<>>, <<BOT_STATS.photos, BOT_STATS.documents>>)>>
            ELSE tasks'[i].replies = tasks[i].replies]_vars

\* a snapshot taken while a counted document upload was still in flight
C18_Witness ==
    \E i, j \in Slots :
        /\ AcceptedStats(tasks[i])
        /\ tasks[i].status = "done"
        /\ tasks[i].replies[1].nums = <<0, 1>>
        /\ Invoked(tasks[j], "handle_document")
        /\ tasks[j].status = "running"

\* C19: in every step the toggle is negated if the step dispatches a
\* toggleforward of the configured admin and is unchanged otherwise; a counter
\* grows by exactly 1 if the step is the return of a download of its category
\* and is unchanged otherwise; counters are never negative; the admin identity
\* and the keyword table never change.
C19_RuntimeStateFrame ==
    [][LET toggles == {i \in Slots : /\ Dispatched(i)
                                     /\ Invoked(tasks'[i], "toggleforward")
                                     /\ IsConfiguredAdmin(tasks'[i].upd.user)}
           photos == {i \in Slots : ForwardStep(i) /\ Invoked(tasks[i], "handle_photo")}
           documents == {i \in Slots : ForwardStep(i) /\ Invoked(tasks[i], "handle_document")}
       IN  /\ Cardinality(toggles \cup photos \cup documents) <= 1
           /\ AUTO_FORWARD' = (IF toggles # {} THEN ~AUTO_FORWARD ELSE AUTO_FORWARD)
           /\ BOT_STATS'.photos = BOT_STATS.photos + (IF photos # {} THEN 1 ELSE 0)
           /\ BOT_STATS'.documents = BOT_STATS.documents + (IF documents # {} THEN 1 ELSE 0)
           /\ BOT_STATS.photos >= 0 /\ BOT_STATS.documents >= 0
           /\ DOMAIN BOT_STATS' = {"photos", "documents"}
           /\ OWNER_ID' = OWNER_ID
           /\ KEYWORDS' = KEYWORDS]_vars

\* a toggle and a counted photo upload have both been handled
C19_Witness ==
    \E i, j \in Slots :
        /\ Invoked(tasks[i], "toggleforward") /\ tasks[i].pc = 122
        /\ Invoked(tasks[j], "handle_photo") /\ tasks[j].status = "done"
        /\ AUTO_FORWARD # StartupForward
        /\ BOT_STATS = [photos |-> 1, documents |-> 0]

\* C20: a text message that matches no entry of the keyword table has got a
\* reply, the generic acknowledgment, once its handling has ended.
C20_FallbackAcknowledged ==
    \A i \in Slots :
        (/\ Invoked(tasks[i], "keyword_reply")
         /\ tasks[i].status = "done"
         /\ \A k \in DOMAIN KEYWORDS :
                ~Search(KEYWORDS[k].pattern, Lower(tasks[i].upd.text)))
            => tasks[i].replies # <<>>

====
